---------------------------- MODULE Spec2Model ----------------------------
(***************************************************************************)
(* The thread scheduler (threads/thread.c) and the synchronization         *)
(* primitives (threads/synch.c): semaphores, locks with priority donation  *)
(* and condition variables, on one CPU.                                    *)
(*                                                                         *)
(* Only the running thread executes.  A kernel function is cut into the    *)
(* segments that run without a context switch and without interrupts       *)
(* being enabled in between; every thread carries the stack of the calls   *)
(* it is inside (stack[t]), whose last frame says where it resumes.  A     *)
(* timer tick may preempt the running thread wherever it has interrupts    *)
(* enabled.                                                                *)
(***************************************************************************)
EXTENDS Integers, Sequences, FiniteSets, TLC

PRI_MIN == 0
PRI_DEFAULT == 31
PRI_MAX == 63

\* Bounds of the model.
NumThreads == 4
NumLocks == 2
NumSemas == 1
NumConds == 1
NumPri == 3
\* The client lets no semaphore of its own count beyond this.
MaxSemaValue == 2
\* The threads of the clients of SpecLock and of SpecSema.
LockThreads == 3
SemaThreads == 3

idle_thread == 0
initial_thread == 1
Threads == 1..NumThreads
AllThreads == 0..NumThreads
NoThread == -1

tid_lock == 0
UserLocks == 1..NumLocks
Locks == 0..NumLocks
NoLock == -1

UserSemas == 1..NumSemas
Conds == 1..NumConds
NoCond == -1

\* The priorities threads are created with and set to.
Priorities == PRI_DEFAULT..(PRI_DEFAULT + NumPri - 1)

\* A semaphore is the one inside a lock, one declared by the client, or the
\* private one of the semaphore_elem a thread declares inside cond_wait.
LockSema(l) == <<"lock", l>>
UserSema(i) == <<"sema", i>>
WaiterSema(t) == <<"waiter", t>>
NoSema == <<"none", 0>>
Semas == {LockSema(l) : l \in Locks} \cup {UserSema(i) : i \in UserSemas}
           \cup {WaiterSema(t) : t \in Threads}

\* The lock a condition variable is used with (cond_wait and cond_signal are
\* called holding it).
CondLock(c) == 1

VARIABLES
  status,             \* thread -> "none" (no such thread yet), "running", "ready", "blocked", "dying"
  priority,           \* thread -> t->priority
  donation_priority,  \* thread -> t->donation_priority
  thread_lock,        \* thread -> t->thread_lock (NoLock for NULL)
  lock_list,          \* thread -> t->lock_list, front first
  stack,              \* thread -> the frames of the calls it is inside, innermost last
  ready_list,         \* ready_list, front first
  all_list,           \* all_list, front first
  cur,                \* running_thread ()
  page_freed,         \* the threads whose page palloc_free_page has released
  sema_value,         \* semaphore -> value
  sema_waiters,       \* semaphore -> waiters, front first
  holder,             \* lock -> holder (NoThread for NULL)
  lock_priority,      \* lock -> lock->priority
  cond_waiters,       \* condition -> waiters: the threads whose semaphore_elem is listed, front first
  panic               \* "none", or why the kernel stopped

vars == <<status, priority, donation_priority, thread_lock, lock_list, stack,
          ready_list, all_list, cur, page_freed, sema_value,
          sema_waiters, holder, lock_priority, cond_waiters, panic>>

schedVars == <<status, ready_list, cur, page_freed>>
semaVars == <<sema_value, sema_waiters>>
lockVars == <<holder, lock_priority, lock_list, donation_priority, thread_lock>>

---------------------------------------------------------------------------
\* Helpers.

Max(a, b) == IF a > b THEN a ELSE b

Range(s) == {s[i] : i \in 1..Len(s)}

RemoveAt(s, i) == SubSeq(s, 1, i - 1) \o SubSeq(s, i + 1, Len(s))

InsertAt(s, i, x) == SubSeq(s, 1, i - 1) \o <<x>> \o SubSeq(s, i, Len(s))

\* list_remove of the one element equal to x.
RemoveElem(s, x) == SelectSeq(s, LAMBDA y : y # x)

\* A frame of a thread's stack; obs is a local variable of the client.
Frame(pc, l, s, c, n) ==
  [pc |-> pc, lock |-> l, sema |-> s, cond |-> c, thr |-> n,
   walk |-> NoLock, prio |-> 0, seen |-> {}, obs |-> << >>]

Top(t) == stack[t][Len(stack[t])]
Below(t) == SubSeq(stack[t], 1, Len(stack[t]) - 1)
AtUser(t) == stack[t] = << >>
At(t, pc) == stack[t] # << >> /\ Top(t).pc = pc

\* The frames inside which interrupts are disabled.
IntrOffPcs == {"sd_loop", "la_walk", "la_woken"}
IntrOff(t) == \E i \in 1..Len(stack[t]) : stack[t][i].pc \in IntrOffPcs

\* A thread_get_priority and priority_compare that ignore donations.
BasePriOnly(t) == priority[t]

\* thread_get_priority, and the value priority_compare orders threads by.
EffPri(t) == Max(priority[t], donation_priority[t])

\* A list_max that takes the front of the list, whatever the priorities.
MaxIdxFront(list) == IF list = << >> THEN {} ELSE {1}

\* list_max (list, thread_priority_compare): the positions of the threads no
\* other thread of the list is above.
MaxIdx(list) ==
  {i \in 1..Len(list) : \A j \in 1..Len(list) : EffPri(list[j]) <= EffPri(list[i])}

---------------------------------------------------------------------------
\* The state once thread_init and thread_start have run: the initial thread
\* runs at PRI_DEFAULT, the idle thread is blocked, tid_lock and the client's
\* locks, semaphores (value 0) and conditions are initialised.
Init ==
  /\ status = [t \in AllThreads |->
                 IF t = initial_thread THEN "running"
                 ELSE IF t = idle_thread THEN "blocked" ELSE "none"]
  /\ priority = [t \in AllThreads |-> IF t = initial_thread THEN PRI_DEFAULT ELSE PRI_MIN]
  /\ donation_priority = [t \in AllThreads |-> PRI_MIN]
  /\ thread_lock = [t \in AllThreads |-> NoLock]
  /\ lock_list = [t \in AllThreads |-> << >>]
  /\ stack = [t \in AllThreads |-> << >>]
  /\ ready_list = << >>
  /\ all_list = <<initial_thread, idle_thread>>
  /\ cur = initial_thread
  /\ page_freed = {}
  /\ sema_value = [s \in Semas |-> IF s[1] = "lock" THEN 1 ELSE 0]
  /\ sema_waiters = [s \in Semas |-> << >>]
  /\ holder = [l \in Locks |-> NoThread]
  /\ lock_priority = [l \in Locks |-> PRI_MIN]
  /\ cond_waiters = [c \in Conds |-> << >>]
  /\ panic = "none"

\* The running thread is in client code, between two calls of the kernel.
Running(t) == panic = "none" /\ cur = t /\ status[t] = "running"
InClient(t) == Running(t) /\ t \in Threads /\ AtUser(t)

---------------------------------------------------------------------------
\* thread.c: the scheduler.

\* A thread_schedule_tail that frees the page of the initial thread too.
ReapInitial(st, next) ==
  IF cur # next /\ st[cur] = "dying"
    THEN page_freed \cup {cur}
    ELSE page_freed

\* thread_schedule_tail's palloc_free_page (prev), with st the threads'
\* status as schedule's caller left them and next the thread switched to.
Reap(st, next) ==
  IF cur # next /\ st[cur] = "dying" /\ cur # initial_thread
    THEN page_freed \cup {cur}
    ELSE page_freed

\* A schedule whose next_thread_to_run takes the front of the ready list.
ScheduleFront(st, rl) ==
  IF rl = << >>
    THEN /\ cur' = idle_thread
         /\ ready_list' = rl
         /\ status' = [st EXCEPT ![idle_thread] = "running"]
         /\ page_freed' = Reap(st, idle_thread)
    ELSE /\ cur' = rl[1]
         /\ ready_list' = RemoveAt(rl, 1)
         /\ status' = [st EXCEPT ![rl[1]] = "running"]
         /\ page_freed' = Reap(st, rl[1])

\* schedule (): next_thread_to_run, switch_threads, thread_schedule_tail.  st
\* and rl are the status and the ready list as schedule's caller left them.
Schedule(st, rl) ==
  IF rl = << >>
    THEN /\ cur' = idle_thread
         /\ ready_list' = rl
         /\ status' = [st EXCEPT ![idle_thread] = "running"]
         /\ page_freed' = Reap(st, idle_thread)
    ELSE \E i \in MaxIdx(rl) :
         /\ cur' = rl[i]
         /\ ready_list' = RemoveAt(rl, i)
         /\ status' = [st EXCEPT ![rl[i]] = "running"]
         /\ page_freed' = Reap(st, rl[i])

\* A thread_yield that leaves the status of the caller THREAD_RUNNING.
YieldStaysRunning(t, k) ==
  /\ stack' = [stack EXCEPT ![t] = k]
  /\ Schedule(status, IF t # idle_thread THEN Append(ready_list, t) ELSE ready_list)

\* thread_yield () by t, which resumes with the frames k.
Yield(t, k) ==
  /\ stack' = [stack EXCEPT ![t] = k]
  /\ Schedule([status EXCEPT ![t] = "ready"],
              IF t # idle_thread THEN Append(ready_list, t) ELSE ready_list)

\* thread_block () by t, which resumes with the frames k.
Block(t, k) ==
  /\ stack' = [stack EXCEPT ![t] = k]
  /\ Schedule([status EXCEPT ![t] = "blocked"], ready_list)

\* The timer interrupt whose thread_tick finds the time slice used up
\* (thread_ticks, which schedule resets and the earlier ticks only count, has
\* reached TIME_SLICE): the interrupt returns through thread_yield.  It comes
\* wherever the running thread has interrupts on.
ThreadTick ==
  /\ Running(cur)
  /\ ~IntrOff(cur)
  /\ Yield(cur, stack[cur])
  /\ UNCHANGED <<priority, all_list, semaVars, lockVars, cond_waiters, panic>>

\* The idle thread's loop: intr_disable, thread_block, sti and hlt.
Idle ==
  /\ Running(idle_thread)
  /\ Block(idle_thread, << >>)
  /\ UNCHANGED <<priority, all_list, semaVars, lockVars, cond_waiters, panic>>

\* thread_yield () called by the client.
ThreadYield ==
  /\ InClient(cur)
  /\ Yield(cur, << >>)
  /\ UNCHANGED <<priority, all_list, semaVars, lockVars, cond_waiters, panic>>

\* thread_set_priority (p), up to its thread_yield.
ThreadSetPriority(p) ==
  /\ InClient(cur)
  /\ priority' = [priority EXCEPT ![cur] = p]
  /\ stack' = [stack EXCEPT ![cur] = <<Frame("sp_yield", NoLock, NoSema, NoCond, NoThread)>>]
  /\ UNCHANGED <<schedVars, all_list, semaVars, lockVars, cond_waiters, panic>>

\* thread_set_priority's thread_yield.
SetPriorityYield ==
  /\ Running(cur)
  /\ At(cur, "sp_yield")
  /\ Yield(cur, Below(cur))
  /\ UNCHANGED <<priority, all_list, semaVars, lockVars, cond_waiters, panic>>

\* thread_exit (): the thread leaves all_list and dies; the thread switched
\* to frees its page.  A thread exits holding no lock.
ThreadExit ==
  /\ InClient(cur)
  /\ lock_list[cur] = << >>
  /\ all_list' = RemoveElem(all_list, cur)
  /\ stack' = stack
  /\ Schedule([status EXCEPT ![cur] = "dying"], ready_list)
  /\ UNCHANGED <<priority, semaVars, lockVars, cond_waiters, panic>>

---------------------------------------------------------------------------
\* synch.c: semaphores.

\* sema_down with "do ... while" for "while": the caller enlists and blocks
\* before the first test of the value.
SemaDownCheckDoWhile(t, s, k) ==
  IF sema_value[s] = 0 \/ ~At(t, "sd_loop")
    THEN /\ sema_waiters' = [sema_waiters EXCEPT ![s] = Append(@, t)]
         /\ sema_value' = sema_value
         /\ Block(t, Append(k, Frame("sd_loop", NoLock, s, NoCond, NoThread)))
    ELSE /\ sema_value' = [sema_value EXCEPT ![s] = @ - 1]
         /\ sema_waiters' = sema_waiters
         /\ stack' = [stack EXCEPT ![t] = k]
         /\ UNCHANGED schedVars

\* sema_down's loop from its test on, by t, which returns to the frames k:
\* while the value is 0 the thread enlists and blocks, else it takes the value.
SemaDownCheck(t, s, k) ==
  IF sema_value[s] = 0
    THEN /\ sema_waiters' = [sema_waiters EXCEPT ![s] = Append(@, t)]
         /\ sema_value' = sema_value
         /\ Block(t, Append(k, Frame("sd_loop", NoLock, s, NoCond, NoThread)))
    ELSE /\ sema_value' = [sema_value EXCEPT ![s] = @ - 1]
         /\ sema_waiters' = sema_waiters
         /\ stack' = [stack EXCEPT ![t] = k]
         /\ UNCHANGED schedVars

\* A sema_up that unblocks the waiter and leaves it on the waiters.
SemaUpCritNoRemove(t, s, k) ==
  /\ IF sema_waiters[s] # << >>
       THEN \E i \in MaxIdx(sema_waiters[s]) :
            /\ ready_list' = Append(ready_list, sema_waiters[s][i])
            /\ status' = [status EXCEPT ![sema_waiters[s][i]] = "ready"]
       ELSE UNCHANGED <<ready_list, status>>
  /\ sema_value' = [sema_value EXCEPT ![s] = @ + 1]
  /\ stack' = [stack EXCEPT ![t] = Append(k, Frame("su_yield", NoLock, s, NoCond, NoThread))]
  /\ UNCHANGED <<sema_waiters, cur, page_freed>>

\* A sema_up that increments the value and wakes nobody.
SemaUpCritNoWake(t, s, k) ==
  /\ sema_value' = [sema_value EXCEPT ![s] = @ + 1]
  /\ stack' = [stack EXCEPT ![t] = Append(k, Frame("su_yield", NoLock, s, NoCond, NoThread))]
  /\ UNCHANGED <<sema_waiters, ready_list, status, cur, page_freed>>

\* A sema_up that wakes the waiter and leaves the value as it is.
SemaUpCritNoCount(t, s, k) ==
  /\ IF sema_waiters[s] # << >>
       THEN \E i \in MaxIdx(sema_waiters[s]) :
            /\ sema_waiters' = [sema_waiters EXCEPT ![s] = RemoveAt(@, i)]
            /\ ready_list' = Append(ready_list, sema_waiters[s][i])
            /\ status' = [status EXCEPT ![sema_waiters[s][i]] = "ready"]
       ELSE UNCHANGED <<sema_waiters, ready_list, status>>
  /\ sema_value' = sema_value
  /\ stack' = [stack EXCEPT ![t] = Append(k, Frame("su_yield", NoLock, s, NoCond, NoThread))]
  /\ UNCHANGED <<cur, page_freed>>

\* sema_up's interrupts-off section by t: unblock the waiter of highest
\* priority, increment the value.  t goes on to sema_up's thread_yield, and
\* returns to the frames k after it.
SemaUpCrit(t, s, k) ==
  /\ IF sema_waiters[s] # << >>
       THEN \E i \in MaxIdx(sema_waiters[s]) :
            /\ sema_waiters' = [sema_waiters EXCEPT ![s] = RemoveAt(@, i)]
            /\ ready_list' = Append(ready_list, sema_waiters[s][i])
            /\ status' = [status EXCEPT ![sema_waiters[s][i]] = "ready"]
       ELSE UNCHANGED <<sema_waiters, ready_list, status>>
  /\ sema_value' = [sema_value EXCEPT ![s] = @ + 1]
  /\ stack' = [stack EXCEPT ![t] = Append(k, Frame("su_yield", NoLock, s, NoCond, NoThread))]
  /\ UNCHANGED <<cur, page_freed>>

\* sema_down (s) called by the client.
SemaDown(i) ==
  /\ InClient(cur)
  /\ SemaDownCheck(cur, UserSema(i), << >>)
  /\ UNCHANGED <<priority, all_list, lockVars, cond_waiters, panic>>

\* sema_down with "if" for "while": a woken thread takes the value untested
\* (the value is unsigned: 0 - 1 wraps to the largest value, 2^31 - 1 here).
SemaDownLoopIf ==
  /\ Running(cur)
  /\ At(cur, "sd_loop")
  /\ sema_value' = [sema_value EXCEPT ![Top(cur).sema] = IF @ = 0 THEN 2147483647 ELSE @ - 1]
  /\ stack' = [stack EXCEPT ![cur] = Below(cur)]
  /\ UNCHANGED <<schedVars, sema_waiters, priority, all_list, lockVars, cond_waiters, panic>>

\* A thread woken inside sema_down tests the value again.
SemaDownLoop ==
  /\ Running(cur)
  /\ At(cur, "sd_loop")
  /\ SemaDownCheck(cur, Top(cur).sema, Below(cur))
  /\ UNCHANGED <<priority, all_list, lockVars, cond_waiters, panic>>

\* sema_try_down (s) called by the client.
SemaTryDown(i) ==
  /\ InClient(cur)
  /\ sema_value[UserSema(i)] > 0
  /\ sema_value' = [sema_value EXCEPT ![UserSema(i)] = @ - 1]
  /\ UNCHANGED <<schedVars, stack, priority, all_list, sema_waiters, lockVars,
                 cond_waiters, panic>>

\* sema_up (s) called by the client, up to its thread_yield.
SemaUp(i) ==
  /\ InClient(cur)
  /\ sema_value[UserSema(i)] < MaxSemaValue
  /\ SemaUpCrit(cur, UserSema(i), << >>)
  /\ UNCHANGED <<priority, all_list, lockVars, cond_waiters, panic>>

\* sema_up's thread_yield, after which sema_up returns.
SemaUpYield ==
  /\ Running(cur)
  /\ At(cur, "su_yield")
  /\ Yield(cur, Below(cur))
  /\ UNCHANGED <<priority, all_list, semaVars, lockVars, cond_waiters, panic>>

---------------------------------------------------------------------------
\* synch.c: locks and priority donation.

\* list_push_front (&t->lock_list, &lock->lock_list_elem).
PushLock(list, l) == <<l>> \o list

\* lock_acquire (l) by t, with interrupts off, up to the donation: the
\* priority to donate is read, then lock_try_acquire either takes the lock
\* (and lock_acquire returns to the frames k) or fails, and the walk of
\* donate_priority_recursively starts at l.
LockAcquireStart(t, l, k) ==
  IF sema_value[LockSema(l)] > 0
    THEN /\ sema_value' = [sema_value EXCEPT ![LockSema(l)] = @ - 1]
         /\ holder' = [holder EXCEPT ![l] = t]
         /\ lock_list' = [lock_list EXCEPT ![t] = PushLock(@, l)]
         /\ stack' = [stack EXCEPT ![t] = k]
         /\ UNCHANGED <<sema_waiters, lock_priority, donation_priority, thread_lock>>
    ELSE /\ stack' = [stack EXCEPT ![t] =
                        Append(k, [Frame("la_walk", l, NoSema, NoCond, NoThread)
                                     EXCEPT !.walk = l, !.prio = EffPri(t)])]
         /\ UNCHANGED <<semaVars, lockVars>>

\* The value donate_priority_recursively leaves in lock->priority and in
\* lock->holder->donation_priority, which held old, for a donation of p.
Donated(old, p) == IF old > p THEN old ELSE p

\* A donation that stops at the first lock: there is no next lock.
NoNextInChain(w) == NoLock

\* The lock donate_priority_recursively calls itself with after lock w.
NextInChain(w) == thread_lock[holder[w]]

\* One call of donate_priority_recursively (walk, prio).  With lock->holder
\* NULL the kernel stops at the read of lock->holder->donation_priority, past
\* the write of lock->priority.
DonatePriorityRecursively ==
  /\ Running(cur)
  /\ At(cur, "la_walk")
  /\ Top(cur).walk # NoLock
  /\ LET f == Top(cur)
         w == f.walk
     IN /\ lock_priority' = [lock_priority EXCEPT ![w] = Donated(@, f.prio)]
        /\ IF holder[w] = NoThread
             THEN /\ panic' = "null holder"
                  /\ UNCHANGED <<donation_priority, stack>>
             ELSE /\ panic' = panic
                  /\ donation_priority' =
                       [donation_priority EXCEPT ![holder[w]] = Donated(@, f.prio)]
                  /\ stack' = [stack EXCEPT ![cur] =
                       Append(Below(cur),
                              [f EXCEPT !.walk = NextInChain(w), !.seen = @ \cup {w}])]
  /\ UNCHANGED <<schedVars, priority, all_list, semaVars, holder, lock_list,
                 thread_lock, cond_waiters>>

\* The walk has returned: lock_acquire records the lock in thread_lock and
\* calls sema_down on the lock's semaphore.
LockAcquireSleep ==
  /\ Running(cur)
  /\ At(cur, "la_walk")
  /\ Top(cur).walk = NoLock
  /\ thread_lock' = [thread_lock EXCEPT ![cur] = Top(cur).lock]
  /\ SemaDownCheck(cur, LockSema(Top(cur).lock),
                   Append(Below(cur), Frame("la_woken", Top(cur).lock, NoSema, NoCond, NoThread)))
  /\ UNCHANGED <<priority, all_list, holder, lock_priority, lock_list,
                 donation_priority, cond_waiters, panic>>

\* sema_down has returned inside lock_acquire: the thread becomes the holder.
LockAcquireWoken ==
  /\ Running(cur)
  /\ At(cur, "la_woken")
  /\ holder' = [holder EXCEPT ![Top(cur).lock] = cur]
  /\ thread_lock' = [thread_lock EXCEPT ![cur] = NoLock]
  /\ lock_list' = [lock_list EXCEPT ![cur] = PushLock(@, Top(cur).lock)]
  /\ stack' = [stack EXCEPT ![cur] = Below(cur)]
  /\ UNCHANGED <<schedVars, priority, all_list, semaVars, lock_priority,
                 donation_priority, cond_waiters, panic>>

\* lock_acquire (l) called by the client.
LockAcquire(l) ==
  /\ InClient(cur)
  /\ holder[l] # cur
  /\ LockAcquireStart(cur, l, << >>)
  /\ UNCHANGED <<schedVars, priority, all_list, cond_waiters, panic>>

\* A lock_try_acquire that donates to the holder when it fails.
LockTryAcquireDonates(l) ==
  /\ InClient(cur)
  /\ holder[l] # cur
  /\ IF sema_value[LockSema(l)] > 0
       THEN /\ sema_value' = [sema_value EXCEPT ![LockSema(l)] = @ - 1]
            /\ stack' = [stack EXCEPT ![cur] = <<Frame("lta_set", l, NoSema, NoCond, NoThread)>>]
            /\ UNCHANGED lock_priority
       ELSE /\ lock_priority' = [lock_priority EXCEPT ![l] = Donated(@, EffPri(cur))]
            /\ UNCHANGED <<sema_value, stack>>
  /\ UNCHANGED <<schedVars, priority, all_list, sema_waiters, holder, lock_list,
                 donation_priority, thread_lock, cond_waiters, panic>>

\* lock_try_acquire (l) called by the client, up to the return of
\* sema_try_down: interrupts are on again before the holder is set.
LockTryAcquire(l) ==
  /\ InClient(cur)
  /\ holder[l] # cur
  /\ IF sema_value[LockSema(l)] > 0
       THEN /\ sema_value' = [sema_value EXCEPT ![LockSema(l)] = @ - 1]
            /\ stack' = [stack EXCEPT ![cur] = <<Frame("lta_set", l, NoSema, NoCond, NoThread)>>]
       ELSE UNCHANGED <<sema_value, stack>>
  /\ UNCHANGED <<schedVars, priority, all_list, sema_waiters, lockVars,
                 cond_waiters, panic>>

\* lock_try_acquire after a successful sema_try_down: lock->holder is set.
\* The caller has interrupts on, as at every step of a lock_try_acquire
\* that the client calls.
LockTryAcquireSet ==
  /\ Running(cur)
  /\ At(cur, "lta_set")
  /\ holder' = [holder EXCEPT ![Top(cur).lock] = cur]
  /\ stack' = [stack EXCEPT ![cur] = Append(Below(cur), [Top(cur) EXCEPT !.pc = "lta_push"])]
  /\ UNCHANGED <<schedVars, priority, all_list, semaVars, lock_priority, lock_list,
                 donation_priority, thread_lock, cond_waiters, panic>>

\* lock_try_acquire's list_push_front of the lock on the caller's lock_list,
\* after which it returns.
LockTryAcquirePush ==
  /\ Running(cur)
  /\ At(cur, "lta_push")
  /\ lock_list' = [lock_list EXCEPT ![cur] = PushLock(@, Top(cur).lock)]
  /\ stack' = [stack EXCEPT ![cur] = Below(cur)]
  /\ UNCHANGED <<schedVars, priority, all_list, semaVars, lock_priority, holder,
                 donation_priority, thread_lock, cond_waiters, panic>>

\* A release that forgets the locks still held: the donation falls to PRI_MIN.
RemainingDonationReset(list, l, acc) == PRI_MIN

\* lock_release's loop over the caller's lock_list: from acc, the maximum of
\* the priority of every lock of the list but l.
RECURSIVE RemainingDonation(_, _, _)
RemainingDonation(list, l, acc) ==
  IF list = << >> THEN acc
  ELSE IF Head(list) = l THEN RemainingDonation(Tail(list), l, acc)
  ELSE RemainingDonation(Tail(list), l,
                         IF acc > lock_priority[Head(list)] THEN acc
                         ELSE lock_priority[Head(list)])

\* A lock_release that leaves the lock on the caller's lock_list.
LockReleaseCritKeepsLock(t, l, k) ==
  /\ donation_priority' =
       [donation_priority EXCEPT ![t] = RemainingDonation(lock_list[t], l, PRI_MIN)]
  /\ lock_list' = lock_list
  /\ holder' = [holder EXCEPT ![l] = NoThread]
  /\ lock_priority' = [lock_priority EXCEPT ![l] = PRI_MIN]
  /\ stack' = [stack EXCEPT ![t] = Append(k, Frame("lr_up", l, NoSema, NoCond, NoThread))]
  /\ UNCHANGED thread_lock

\* lock_release (l) by t, its interrupts-off section: the lock leaves the
\* caller's list and loses holder and priority, the caller's donation is
\* computed anew.  t goes on to sema_up, and returns to the frames k.
LockReleaseCrit(t, l, k) ==
  /\ donation_priority' =
       [donation_priority EXCEPT ![t] = RemainingDonation(lock_list[t], l, PRI_MIN)]
  /\ lock_list' = [lock_list EXCEPT ![t] = RemoveElem(@, l)]
  /\ holder' = [holder EXCEPT ![l] = NoThread]
  /\ lock_priority' = [lock_priority EXCEPT ![l] = PRI_MIN]
  /\ stack' = [stack EXCEPT ![t] = Append(k, Frame("lr_up", l, NoSema, NoCond, NoThread))]
  /\ UNCHANGED thread_lock

\* lock_release (l) called by the client.
LockRelease(l) ==
  /\ InClient(cur)
  /\ holder[l] = cur
  /\ LockReleaseCrit(cur, l, << >>)
  /\ UNCHANGED <<schedVars, priority, all_list, semaVars, cond_waiters, panic>>

\* lock_release's sema_up, up to its thread_yield.
LockReleaseUp ==
  /\ Running(cur)
  /\ At(cur, "lr_up")
  /\ SemaUpCrit(cur, LockSema(Top(cur).lock),
                Append(Below(cur), Frame("lr_ret", Top(cur).lock, NoSema, NoCond, NoThread)))
  /\ UNCHANGED <<priority, all_list, lockVars, cond_waiters, panic>>

\* lock_release returns.
LockReleaseReturn ==
  /\ Running(cur)
  /\ At(cur, "lr_ret")
  /\ stack' = [stack EXCEPT ![cur] = Below(cur)]
  /\ UNCHANGED <<schedVars, priority, all_list, semaVars, lockVars, cond_waiters, panic>>

---------------------------------------------------------------------------
\* synch.c: condition variables.

\* What cond_priority_cmp compares a semaphore_elem by: the priority field of
\* the thread at the front of its semaphore's waiters.
CondKey(w) == priority[Head(sema_waiters[WaiterSema(w)])]

\* cond_priority_cmp (a, b).
CondPriorityCmp(a, b) == CondKey(a) > CondKey(b)

\* list_sort (&cond->waiters, cond_priority_cmp): the order is that of
\* cond_priority_cmp, elements it does not order keep their order.
RECURSIVE SortedInsert(_, _)
SortedInsert(sorted, x) ==
  IF sorted = << >> THEN <<x>>
  ELSE IF CondPriorityCmp(x, Head(sorted)) THEN <<x>> \o sorted
  ELSE <<Head(sorted)>> \o SortedInsert(Tail(sorted), x)

RECURSIVE ListSort(_)
ListSort(list) ==
  IF list = << >> THEN << >>
  ELSE SortedInsert(ListSort(SubSeq(list, 1, Len(list) - 1)), list[Len(list)])

\* list_sort calls cond_priority_cmp on every element of a list of two or
\* more, and list_front asserts that the list it is given is not empty.
SortAsserts(list) ==
  Len(list) >= 2 /\ \E i \in 1..Len(list) : sema_waiters[WaiterSema(list[i])] = << >>

\* cond_wait (c, lock) called by the client, up to lock_release's sema_up.
\* list_insert_ordered is given thread_priority_compare, which reads the
\* semaphore_elem as if its elem were a thread's: the place of the new
\* element is any.
CondWait(c) ==
  /\ InClient(cur)
  /\ holder[CondLock(c)] = cur
  /\ sema_value' = [sema_value EXCEPT ![WaiterSema(cur)] = 0]
  /\ sema_waiters' = [sema_waiters EXCEPT ![WaiterSema(cur)] = << >>]
  /\ \E i \in 1..(Len(cond_waiters[c]) + 1) :
       cond_waiters' = [cond_waiters EXCEPT ![c] = InsertAt(@, i, cur)]
  /\ LockReleaseCrit(cur, CondLock(c),
                     <<Frame("cw_down", CondLock(c), WaiterSema(cur), c, NoThread)>>)
  /\ UNCHANGED <<schedVars, priority, all_list, panic>>

\* cond_wait's sema_down on the semaphore of its semaphore_elem.
CondWaitDown ==
  /\ Running(cur)
  /\ At(cur, "cw_down")
  /\ SemaDownCheck(cur, Top(cur).sema,
                   Append(Below(cur), Frame("cw_acq", Top(cur).lock, NoSema, Top(cur).cond, NoThread)))
  /\ UNCHANGED <<priority, all_list, lockVars, cond_waiters, panic>>

\* cond_wait's lock_acquire.
CondWaitAcquire ==
  /\ Running(cur)
  /\ At(cur, "cw_acq")
  /\ LockAcquireStart(cur, Top(cur).lock, Below(cur))
  /\ UNCHANGED <<schedVars, priority, all_list, cond_waiters, panic>>

\* cond_signal (c, lock) called by the client: with no waiter, its
\* thread_yield; else list_sort, list_pop_front and sema_up up to sema_up's
\* thread_yield.
CondSignal(c) ==
  /\ InClient(cur)
  /\ holder[CondLock(c)] = cur
  /\ IF cond_waiters[c] = << >>
       THEN /\ Yield(cur, << >>)
            /\ UNCHANGED <<semaVars, cond_waiters, panic>>
       ELSE IF SortAsserts(cond_waiters[c])
         THEN /\ panic' = "list_front of an empty list"
              /\ UNCHANGED <<schedVars, stack, semaVars, cond_waiters>>
         ELSE /\ cond_waiters' = [cond_waiters EXCEPT ![c] = Tail(ListSort(@))]
              /\ SemaUpCrit(cur, WaiterSema(Head(ListSort(cond_waiters[c]))),
                            <<Frame("cs_yield", NoLock, NoSema, c, NoThread)>>)
              /\ panic' = panic
  /\ UNCHANGED <<priority, all_list, lockVars>>

\* cond_signal's own thread_yield.
CondSignalYield ==
  /\ Running(cur)
  /\ At(cur, "cs_yield")
  /\ Yield(cur, Below(cur))
  /\ UNCHANGED <<priority, all_list, semaVars, lockVars, cond_waiters, panic>>

---------------------------------------------------------------------------
\* thread.c: thread_create.

\* thread_create (p) called by the client, which makes thread n: init_thread,
\* then allocate_tid up to its lock_acquire (&tid_lock).  Threads are made
\* in the order of their numbers.
ThreadCreate(n, p) ==
  /\ InClient(cur)
  /\ status[n] = "none"
  /\ \A m \in Threads : m < n => status[m] # "none"
  /\ status' = [status EXCEPT ![n] = "blocked"]
  /\ priority' = [priority EXCEPT ![n] = p]
  /\ all_list' = Append(all_list, n)
  /\ LockAcquireStart(cur, tid_lock, <<Frame("tc_release", NoLock, NoSema, NoCond, n)>>)
  /\ UNCHANGED <<ready_list, cur, page_freed, cond_waiters, panic>>

\* allocate_tid's lock_release (&tid_lock).
ThreadCreateRelease ==
  /\ Running(cur)
  /\ At(cur, "tc_release")
  /\ LockReleaseCrit(cur, tid_lock,
                     Append(Below(cur), Frame("tc_unblock", NoLock, NoSema, NoCond, Top(cur).thr)))
  /\ UNCHANGED <<schedVars, priority, all_list, semaVars, cond_waiters, panic>>

\* A thread_unblock that sets the status and forgets the ready list.
ThreadCreateUnblockNoList ==
  /\ Running(cur)
  /\ At(cur, "tc_unblock")
  /\ status' = [status EXCEPT ![Top(cur).thr] = "ready"]
  /\ stack' = [stack EXCEPT ![cur] =
                 Append(Below(cur), Frame("tc_yield", NoLock, NoSema, NoCond, Top(cur).thr))]
  /\ UNCHANGED <<ready_list, cur, page_freed, priority, all_list, semaVars,
                 lockVars, cond_waiters, panic>>

\* thread_create's thread_unblock (t).
ThreadCreateUnblock ==
  /\ Running(cur)
  /\ At(cur, "tc_unblock")
  /\ ready_list' = Append(ready_list, Top(cur).thr)
  /\ status' = [status EXCEPT ![Top(cur).thr] = "ready"]
  /\ stack' = [stack EXCEPT ![cur] =
                 Append(Below(cur), Frame("tc_yield", NoLock, NoSema, NoCond, Top(cur).thr))]
  /\ UNCHANGED <<cur, page_freed, priority, all_list, semaVars,
                 lockVars, cond_waiters, panic>>

\* thread_create's thread_yield.
ThreadCreateYield ==
  /\ Running(cur)
  /\ At(cur, "tc_yield")
  /\ Yield(cur, Below(cur))
  /\ UNCHANGED <<priority, all_list, semaVars, lockVars, cond_waiters, panic>>

---------------------------------------------------------------------------
\* The kernel with every operation.
Next ==
  \/ ThreadTick
  \/ Idle
  \/ ThreadYield
  \/ \E p \in Priorities : ThreadSetPriority(p)
  \/ SetPriorityYield
  \/ ThreadExit
  \/ \E n \in Threads, p \in Priorities : ThreadCreate(n, p)
  \/ ThreadCreateRelease
  \/ ThreadCreateUnblock
  \/ ThreadCreateYield
  \/ \E i \in UserSemas : SemaDown(i)
  \/ SemaDownLoop
  \/ \E i \in UserSemas : SemaTryDown(i)
  \/ \E i \in UserSemas : SemaUp(i)
  \/ SemaUpYield
  \/ \E l \in UserLocks : LockAcquire(l)
  \/ DonatePriorityRecursively
  \/ LockAcquireSleep
  \/ LockAcquireWoken
  \/ \E l \in UserLocks : LockTryAcquire(l)
  \/ LockTryAcquireSet
  \/ LockTryAcquirePush
  \/ \E l \in UserLocks : LockRelease(l)
  \/ LockReleaseUp
  \/ LockReleaseReturn
  \/ \E c \in Conds : CondWait(c)
  \/ CondWaitDown
  \/ CondWaitAcquire
  \/ \E c \in Conds : CondSignal(c)
  \/ CondSignalYield

Spec == Init /\ [][Next]_vars

---------------------------------------------------------------------------
\* The priorities the clients of SpecLock and SpecSema set their threads to:
\* the lowest and the highest of Priorities.
ClientPriorities == {PRI_DEFAULT, PRI_DEFAULT + NumPri - 1}

\* The kernel under a client that uses locks only, and has up to LockThreads
\* threads.
NextLock ==
  \/ ThreadTick
  \/ Idle
  \/ \E p \in ClientPriorities : ThreadSetPriority(p)
  \/ SetPriorityYield
  \/ \E n \in 1..LockThreads, p \in Priorities : ThreadCreate(n, p)
  \/ ThreadCreateRelease
  \/ ThreadCreateUnblock
  \/ ThreadCreateYield
  \/ \E l \in UserLocks : LockAcquire(l)
  \/ DonatePriorityRecursively
  \/ LockAcquireSleep
  \/ LockAcquireWoken
  \/ SemaDownLoop
  \/ \E l \in UserLocks : LockTryAcquire(l)
  \/ LockTryAcquireSet
  \/ LockTryAcquirePush
  \/ \E l \in UserLocks : LockRelease(l)
  \/ LockReleaseUp
  \/ SemaUpYield
  \/ LockReleaseReturn

SpecLock == Init /\ [][NextLock]_vars

\* The kernel under a client that uses semaphores only, and has up to
\* SemaThreads threads.
NextSema ==
  \/ ThreadTick
  \/ Idle
  \/ ThreadYield
  \/ ThreadExit
  \/ \E p \in ClientPriorities : ThreadSetPriority(p)
  \/ SetPriorityYield
  \/ \E n \in 1..SemaThreads, p \in Priorities : ThreadCreate(n, p)
  \/ ThreadCreateRelease
  \/ LockReleaseUp
  \/ LockReleaseReturn
  \/ ThreadCreateUnblock
  \/ ThreadCreateYield
  \/ \E i \in UserSemas : SemaDown(i)
  \/ SemaDownLoop
  \/ \E i \in UserSemas : SemaTryDown(i)
  \/ \E i \in UserSemas : SemaUp(i)
  \/ SemaUpYield
  \/ LockAcquire(1)
  \/ DonatePriorityRecursively
  \/ LockAcquireSleep
  \/ LockAcquireWoken
  \/ LockRelease(1)

SpecSema == Init /\ [][NextSema]_vars

\* The priority the client of SpecCond creates thread n with.
CondClientPriority(n) == IF n = 2 THEN PRI_DEFAULT + 2 ELSE PRI_DEFAULT + 1

\* The kernel under a client that uses locks and condition variables, and
\* creates its threads above the initial thread.
NextCond ==
  \/ ThreadTick
  \/ Idle
  \/ \E n \in Threads : ThreadCreate(n, CondClientPriority(n))
  \/ ThreadCreateRelease
  \/ ThreadCreateUnblock
  \/ ThreadCreateYield
  \/ \E l \in UserLocks : LockAcquire(l)
  \/ DonatePriorityRecursively
  \/ LockAcquireSleep
  \/ LockAcquireWoken
  \/ SemaDownLoop
  \/ \E l \in UserLocks : LockRelease(l)
  \/ LockReleaseUp
  \/ SemaUpYield
  \/ LockReleaseReturn
  \/ \E c \in Conds : CondWait(c)
  \/ CondWaitDown
  \/ CondWaitAcquire
  \/ \E c \in Conds : CondSignal(c)
  \/ CondSignalYield

SpecCond == Init /\ [][NextCond]_vars

---------------------------------------------------------------------------
\* Properties of locks.

\* Thread t is between a successful return of lock_acquire or
\* lock_try_acquire on l and its lock_release (l): l is on t's lock_list.
Holds(t, l) == \E i \in 1..Len(lock_list[t]) : lock_list[t][i] = l

\* C1: mutual exclusion.  At most one thread is between a successful return
\* of lock_acquire or lock_try_acquire on a lock and its matching
\* lock_release, and that thread is the lock's holder, also when a woken
\* waiter has not run yet and another thread takes the lock first.
MutualExclusion ==
  \A l \in Locks :
    /\ Cardinality({t \in AllThreads : Holds(t, l)}) <= 1
    /\ \A t \in AllThreads : Holds(t, l) => holder[l] = t /\ sema_value[LockSema(l)] = 0

\* Thread w was woken inside lock_acquire (l), has not run yet, and thread u
\* has taken the lock in the meantime.
TakenBeforeWokenRuns ==
  \E l \in UserLocks, w \in Threads, u \in Threads :
    /\ u # w
    /\ status[w] = "ready"
    /\ At(w, "sd_loop")
    /\ Top(w).sema = LockSema(l)
    /\ \A i \in 1..Len(sema_waiters[LockSema(l)]) : sema_waiters[LockSema(l)][i] # w
    /\ Holds(u, l)

\* Thread w is suspended in lock_acquire (l).
SuspendedOn(w, l) ==
  /\ thread_lock[w] = l
  /\ status[w] = "blocked"
  /\ \E i \in 1..Len(sema_waiters[LockSema(l)]) : sema_waiters[LockSema(l)][i] = w

\* C2: no priority inversion through a lock.  The holder of a lock has at
\* least the effective priority of every thread suspended in lock_acquire on
\* that lock.
NoPriorityInversion ==
  \A l \in Locks, w \in Threads :
    (holder[l] # NoThread /\ SuspendedOn(w, l)) => EffPri(holder[l]) >= EffPri(w)

\* The locks of the chain l, l's holder's thread_lock, ..., at most n of them.
RECURSIVE Chain(_, _)
Chain(l, n) ==
  IF l = NoLock \/ n = 0 THEN {}
  ELSE IF holder[l] = NoThread THEN {l}
  ELSE {l} \cup Chain(thread_lock[holder[l]], n - 1)

\* Thread t has made its donation and is about to call sema_down.
DonationMade(t) == Running(t) /\ At(t, "la_walk") /\ Top(t).walk = NoLock

\* C4: nested donation.  When a thread of effective priority p has failed
\* lock_try_acquire inside lock_acquire and is about to sleep, it still runs,
\* and every lock of the chain from the lock it wants has a priority of at
\* least p and a holder with a donated priority of at least p.
NestedDonation ==
  \A t \in Threads :
    DonationMade(t) =>
      /\ status[t] = "running"
      /\ Top(t).prio = EffPri(t)
      /\ \A l \in Chain(Top(t).lock, NumLocks + 1) :
           /\ holder[l] # NoThread
           /\ lock_priority[l] >= Top(t).prio
           /\ donation_priority[holder[l]] >= Top(t).prio

\* A donation has gone through two locks and raised both holders above
\* their own priority.
DonatedThroughTwoLocks ==
  \E t \in Threads, l1 \in UserLocks, l2 \in UserLocks :
    /\ DonationMade(t)
    /\ l1 # l2
    /\ Top(t).lock = l2
    /\ holder[l2] \notin {NoThread, t}
    /\ thread_lock[holder[l2]] = l1
    /\ holder[l1] \notin {NoThread, t, holder[l2]}
    /\ priority[holder[l2]] < Top(t).prio
    /\ priority[holder[l1]] < Top(t).prio
    /\ donation_priority[holder[l2]] = Top(t).prio
    /\ donation_priority[holder[l1]] = Top(t).prio

\* The maximum of lock->priority over the locks of a list, PRI_MIN for none.
RECURSIVE MaxCeiling(_)
MaxCeiling(list) ==
  IF list = << >> THEN PRI_MIN ELSE Max(lock_priority[Head(list)], MaxCeiling(Tail(list)))

\* C5: donation is dropped on release.  When lock_release returns, the
\* caller's effective priority is the maximum of its own priority and of the
\* priorities of the locks it still holds.
DonationDroppedOnRelease ==
  \A t \in Threads :
    (Running(t) /\ At(t, "lr_ret")) =>
      EffPri(t) = Max(priority[t], MaxCeiling(lock_list[t]))

\* lock_release returns to a thread that has given a lock to another thread
\* and still runs above its own priority, at the priority donated through a
\* lock it keeps.
ReleasedOneKeepsOther ==
  \E t \in Threads, l \in UserLocks, w \in Threads :
    /\ Running(t)
    /\ At(t, "lr_ret")
    /\ holder[Top(t).lock] \notin {NoThread, t}
    /\ holder[l] = t
    /\ SuspendedOn(w, l)
    /\ priority[t] < EffPri(t)
    /\ EffPri(t) = lock_priority[l]
    /\ EffPri(t) < PRI_DEFAULT + NumPri - 1

\* C6: the donation walk terminates.  Interrupts are off during the walk, so
\* holder and thread_lock do not change under it: it terminates if and only
\* if it never comes to a lock it has been at.
DonationWalkTerminates ==
  \A t \in Threads :
    (At(t, "la_walk") /\ Top(t).walk # NoLock) => Top(t).walk \notin Top(t).seen

\* C7: the donation walk stops at a lock that has no holder: it never reads
\* the holder's fields of a lock whose holder is NULL.
DonationWalkStopsAtFreeLock == panic # "null holder"

---------------------------------------------------------------------------
\* Properties of semaphores.

\* Thread t is on the waiters list of semaphore s.
Waits(t, s) == \E i \in 1..Len(sema_waiters[s]) : sema_waiters[s][i] = t

\* A step that takes a thread off the waiters of s takes exactly one, a
\* thread no waiter of s is above in effective priority at that moment, and
\* makes it ready.
WakesHighest(s) ==
  Len(sema_waiters'[s]) < Len(sema_waiters[s]) =>
    \E i \in 1..Len(sema_waiters[s]) :
      /\ sema_waiters'[s] = RemoveAt(sema_waiters[s], i)
      /\ status[sema_waiters[s][i]] = "blocked"
      /\ status'[sema_waiters[s][i]] = "ready"
      /\ \A j \in 1..Len(sema_waiters[s]) :
           EffPri(sema_waiters[s][j]) <= EffPri(sema_waiters[s][i])

Woken(t, s) ==
  /\ status[t] \in {"ready", "running"}
  /\ At(t, "sd_loop")
  /\ Top(t).sema = s
  /\ ~Waits(t, s)

ValueOnlyWithoutWaiters ==
  ~IntrOff(cur) => \A s \in Semas : sema_value[s] > 0 => sema_waiters[s] = << >>

\* C10: counter semantics.  A semaphore has a value above 0 and waiters only
\* while threads sema_up has taken off the waiters have not tested the value
\* again: the value is then at most the number of those threads.
ValueOnlyForWoken ==
  \A s \in Semas :
    sema_waiters[s] # << >> =>
      sema_value[s] <= Cardinality({t \in Threads : Woken(t, s)})

\* A semaphore has a value above 0, a waiter, and a woken thread that has
\* not run yet.
ValueAndWaiters ==
  \E i \in UserSemas, w \in Threads :
    /\ sema_value[UserSema(i)] > 0
    /\ sema_waiters[UserSema(i)] # << >>
    /\ Woken(w, UserSema(i))
    /\ status[w] = "ready"
    /\ ~IntrOff(cur)

---------------------------------------------------------------------------
\* Properties of condition variables.

\* A step that takes a waiter off condition c takes one no waiter of c is
\* above in effective priority at that moment.
SignalsHighest(c) ==
  Len(cond_waiters'[c]) < Len(cond_waiters[c]) =>
    \A w \in Range(cond_waiters[c]) \ Range(cond_waiters'[c]) :
      \A v \in Range(cond_waiters[c]) : EffPri(v) <= EffPri(w)

\* C8: cond_signal wakes the highest-priority waiter.  Of the threads
\* waiting on a condition, the one cond_signal unblocks has the highest
\* effective priority at the time of the signal.
CondSignalWakesHighest == [][\A c \in Conds : SignalsHighest(c)]_vars

\* C9: every token has a thread on it.  When cond_signal sorts the waiters of
\* a condition, the semaphore of every token has a thread on its waiters:
\* cond_priority_cmp never takes the front of an empty list.
CondTokensHaveThreads == panic # "list_front of an empty list"

---------------------------------------------------------------------------
\* Properties of the lock fields.

\* C11: whenever interrupts are on, a lock has no holder if and only if the
\* value of its semaphore is 1.
HolderNullIffValueOne ==
  ~IntrOff(cur) =>
    \A l \in Locks : (holder[l] = NoThread) <=> (sema_value[LockSema(l)] = 1)

\* The maximum effective priority of the threads suspended in lock_acquire
\* (l), PRI_MIN when there is none.
RECURSIVE MaxWaiting(_, _)
MaxWaiting(list, l) ==
  IF list = << >> THEN PRI_MIN
  ELSE IF thread_lock[Head(list)] = l
    THEN Max(EffPri(Head(list)), MaxWaiting(Tail(list), l))
    ELSE MaxWaiting(Tail(list), l)

\* C12: whenever interrupts are on, the priority of a lock is the maximum
\* effective priority of the threads waiting on it, PRI_MIN when none waits.
CeilingIsMaxWaiting ==
  ~IntrOff(cur) =>
    \A l \in Locks : lock_priority[l] = MaxWaiting(sema_waiters[LockSema(l)], l)

---------------------------------------------------------------------------
\* Properties of the scheduler.

\* The positions of a thread inside a kernel function that calls thread_yield
\* next.
YieldPcs == {"su_yield", "sp_yield", "tc_yield", "cs_yield"}

\* A step that switches threads takes the new thread off the ready list, and
\* no thread left on the ready list is above it; the idle thread is taken
\* only when no thread is ready.  A thread that yields and runs on has no
\* ready thread above it.
PicksHighest ==
  /\ (cur' # cur /\ cur' = idle_thread) =>
       ready_list = << >> /\ ready_list' = << >>
  /\ (cur' # cur /\ cur' # idle_thread) =>
       /\ status[cur'] = "ready"
       /\ status'[cur'] = "running"
       /\ cur' \in Range(ready_list)
       /\ cur' \notin Range(ready_list')
       /\ \A t \in Range(ready_list') :
            Max(priority[t], donation_priority[t])
              <= Max(priority[cur'], donation_priority[cur'])
  /\ (cur' = cur /\ Running(cur) /\ stack[cur] # << >> /\ Top(cur).pc \in YieldPcs
        /\ stack'[cur] = Below(cur)) =>
       \A t \in Range(ready_list) :
         Max(priority[t], donation_priority[t])
           <= Max(priority[cur], donation_priority[cur])

\* C13: strict priority pick-next.  Every time schedule chooses the next
\* thread, it takes from the ready list a thread of maximal effective
\* priority among the ready threads, and the idle thread only when the
\* ready list is empty.
StrictPriorityPickNext == [][PicksHighest]_vars

\* A thread runs at a donated priority through a lock it holds, while a
\* thread whose priority is between the holder's own and the donated one is
\* ready and does not run.
DonatedRunsBeforeMiddle ==
  \E l \in UserLocks, h \in Threads, m \in Threads :
    /\ cur # h /\ cur # m /\ h # m
    /\ Running(cur)
    /\ holder[l] = cur
    /\ SuspendedOn(h, l)
    /\ status[m] = "ready"
    /\ m \in Range(ready_list)
    /\ priority[cur] < EffPri(m)
    /\ EffPri(m) < EffPri(cur)
    /\ EffPri(cur) = EffPri(h)

\* The step of thread_create's thread_yield: by the creator, for the thread
\* of its tc_yield frame.
CreateYieldStep ==
  /\ Running(cur)
  /\ At(cur, "tc_yield")
  /\ stack'[cur] = Below(cur)

\* At thread_create's yield a new thread above the creator's effective
\* priority that is still ready (it has not run to a blocking point or to
\* its exit during a pre-emption of the creator) takes the processor, or a
\* thread of at least the new thread's priority does; a new thread that is
\* not above the creator does not take the processor from it.
CreateYields ==
  CreateYieldStep =>
    /\ (priority[Top(cur).thr] > EffPri(cur) /\ status[Top(cur).thr] = "ready") =>
         /\ cur' # cur
         /\ Max(priority[cur'], donation_priority[cur']) >= priority[Top(cur).thr]
    /\ priority[Top(cur).thr] <= EffPri(cur) => cur' # Top(cur).thr

\* C14: preemption on create.  thread_create yields to the new thread when
\* it is above the creator's effective priority, and the creator is not
\* descheduled in favour of a new thread that is not above it.
PreemptionOnCreate == [][CreateYields]_vars

---------------------------------------------------------------------------
\* Properties of the thread lists.

\* The places of thread t on the ready list and on the waiters of the
\* semaphores.
ListPlaces(t) ==
  {<<(<<"ready", 0>>), i>> : i \in {j \in 1..Len(ready_list) : ready_list[j] = t}}
    \cup UNION {{<<s, i>> : i \in {j \in 1..Len(sema_waiters[s]) : sema_waiters[s][j] = t}}
                  : s \in Semas}

\* The places of thread t on the waiters of the semaphores.
WaiterPlaces(t) == {pl \in ListPlaces(t) : pl[1] # <<"ready", 0>>}

\* C15: exactly one thread has the status THREAD_RUNNING, the current one,
\* and it is neither on the ready list nor on the waiters of a semaphore.
ExactlyOneRunning ==
  /\ Cardinality({t \in AllThreads : status[t] = "running"}) = 1
  /\ status[cur] = "running"
  /\ ListPlaces(cur) = {}

\* No thread is inside a kernel function that is running: the current thread
\* is in client code, with a ready thread and a blocked thread beside it.
QuiescentWithOthers ==
  /\ InClient(cur)
  /\ \E r \in Threads : status[r] = "ready" /\ ListPlaces(r) # {}
  /\ \E b \in Threads : status[b] = "blocked" /\ WaiterPlaces(b) # {}

\* Thread t exists and its page has not been freed.
Live(t) == status[t] # "none" /\ t \notin page_freed

\* The kernel is at rest: the current thread is in client code, or the idle
\* thread runs.
Quiescent == panic = "none" /\ (InClient(cur) \/ cur = idle_thread)

\* Thread t is where its status says, and nowhere else.
InItsPlace(t) ==
  /\ status[t] = "running" => cur = t /\ ListPlaces(t) = {}
  /\ status[t] = "ready" =>
       Cardinality(ListPlaces(t)) = 1 /\ WaiterPlaces(t) = {}
  /\ status[t] = "blocked" =>
       Cardinality(ListPlaces(t)) = 1 /\ Cardinality(WaiterPlaces(t)) = 1
  /\ status[t] = "dying" => ListPlaces(t) = {}

\* C16 as stated: at rest every live thread is the running thread, on the
\* ready list, on the waiters of one semaphore or dying, and a blocked
\* thread is on the waiters of exactly one semaphore.
PartitionAtRest ==
  Quiescent => \A t \in Threads : Live(t) => InItsPlace(t)

\* thread_create has initialised thread t and has not unblocked it yet.
BeingCreated(t) ==
  \E c \in Threads : \E i \in 1..Len(stack[c]) :
    stack[c][i].pc \in {"tc_release", "tc_unblock"} /\ stack[c][i].thr = t

\* C16: partition of the live threads.  Every live thread is the running
\* thread, on the ready list, on the waiters of one semaphore or dying; a
\* thread that thread_create has not unblocked yet is blocked and on no list.
PartitionButNewThreads ==
  \A t \in Threads :
    Live(t) =>
      IF BeingCreated(t)
        THEN status[t] = "blocked" /\ ListPlaces(t) = {}
        ELSE InItsPlace(t)

\* A thread runs client code while thread_create, pre-empted, has not yet
\* unblocked the thread it makes.
NewThreadOnNoList ==
  /\ InClient(cur)
  /\ \E t \in Threads : BeingCreated(t) /\ status[t] = "blocked" /\ ListPlaces(t) = {}
  /\ \E r \in Threads : status[r] = "ready" /\ Cardinality(ListPlaces(r)) = 1

\* C17: a thread is in at most one place of the ready list and the waiters
\* of the semaphores.
AtMostOnePlace == \A t \in AllThreads : Cardinality(ListPlaces(t)) <= 1

\* A thread woken inside sema_down runs and finds the value 0, taken by
\* another thread: it enlists again.
WokenFindsValueTaken ==
  \E i \in UserSemas :
    /\ Running(cur)
    /\ Woken(cur, UserSema(i))
    /\ sema_value[UserSema(i)] = 0

---------------------------------------------------------------------------
\* Properties of lock_try_acquire and thread_set_priority.

\* The step leaves the priorities of the threads, their donated priorities,
\* the priorities of the locks and the locks the threads wait for as they are.
PriorityStateKept ==
  /\ priority' = priority
  /\ donation_priority' = donation_priority
  /\ lock_priority' = lock_priority
  /\ thread_lock' = thread_lock

\* The step of lock_try_acquire whose sema_try_down succeeds.
TryTakesStep ==
  /\ InClient(cur)
  /\ stack'[cur] # << >>
  /\ stack'[cur][Len(stack'[cur])].pc = "lta_set"

\* The step of lock_try_acquire that follows a successful sema_try_down.
TrySetsStep ==
  /\ Running(cur)
  /\ At(cur, "lta_set")
  /\ stack'[cur] # stack[cur]

\* The last step of a lock_try_acquire that has succeeded.
TryPushesStep ==
  /\ Running(cur)
  /\ At(cur, "lta_push")
  /\ stack'[cur] = Below(cur)

\* A step of the client that stays in client code and takes no semaphore
\* value: a lock_try_acquire that fails is one.
ClientStaysStep ==
  /\ InClient(cur)
  /\ cur' = cur
  /\ stack'[cur] = << >>
  /\ sema_value' = sema_value

\* lock_try_acquire takes the value 1 of the semaphore of a lock without a
\* holder, then records the caller as holder and puts the lock on the
\* caller's lock_list; a step that takes nothing changes no holder and no
\* lock_list; none of them changes the priority state.
TryAcquireFrame ==
  /\ TryTakesStep =>
       /\ holder[stack'[cur][1].lock] = NoThread
       /\ sema_value[LockSema(stack'[cur][1].lock)] = 1
       /\ sema_value' = [sema_value EXCEPT ![LockSema(stack'[cur][1].lock)] = 0]
       /\ PriorityStateKept
       /\ UNCHANGED <<holder, lock_list, sema_waiters, cur, ready_list, status>>
  /\ TrySetsStep =>
       /\ holder' = [holder EXCEPT ![Top(cur).lock] = cur]
       /\ PriorityStateKept
       /\ UNCHANGED <<lock_list, semaVars, cur, ready_list, status>>
  /\ TryPushesStep =>
       /\ lock_list' = [lock_list EXCEPT ![cur] = <<Top(cur).lock>> \o @]
       /\ PriorityStateKept
       /\ UNCHANGED <<holder, semaVars, cur, ready_list, status>>
  /\ ClientStaysStep =>
       /\ PriorityStateKept
       /\ UNCHANGED <<holder, lock_list, sema_waiters>>

\* C18: lock_try_acquire never changes priority state.  On a held lock it
\* fails and changes nothing; on a free lock (no holder, value 1) it takes
\* the value, records the caller as holder, adds the lock to the caller's
\* lock_list, and donates nothing.
TryAcquireKeepsPriorities == [][TryAcquireFrame]_vars

\* A thread that runs at a donated priority through a lock it holds has
\* taken the value of another lock in lock_try_acquire.
TryAcquireUnderDonation ==
  \E l \in UserLocks, w \in Threads :
    /\ Running(cur)
    /\ At(cur, "lta_set")
    /\ Top(cur).lock # l
    /\ holder[l] = cur
    /\ SuspendedOn(w, l)
    /\ priority[cur] < donation_priority[cur]
    /\ lock_priority[Top(cur).lock] = PRI_MIN

\* The step of thread_set_priority up to its thread_yield.
SetPriorityStep ==
  /\ InClient(cur)
  /\ stack'[cur] # << >>
  /\ stack'[cur][Len(stack'[cur])].pc = "sp_yield"

\* The step of thread_set_priority's thread_yield.
SetPriorityYieldStep ==
  /\ Running(cur)
  /\ At(cur, "sp_yield")
  /\ stack'[cur] = Below(cur)

\* thread_set_priority changes the caller's priority and nothing else, the
\* caller keeps a donated priority above it as its effective priority, and
\* at the yield no ready thread below that level takes the processor;
\* thread_get_priority is the maximum of the own and the donated priority.
SetPriorityFrame ==
  /\ \A t \in AllThreads :
       EffPri(t) = IF donation_priority[t] > priority[t]
                     THEN donation_priority[t] ELSE priority[t]
  /\ SetPriorityStep =>
       /\ \A t \in AllThreads : t # cur => priority'[t] = priority[t]
       /\ UNCHANGED <<donation_priority, lock_priority, thread_lock, holder,
                      lock_list, semaVars, cur, ready_list, status>>
  /\ SetPriorityYieldStep =>
       ((\A t \in Range(ready_list) :
           Max(priority[t], donation_priority[t])
             < Max(priority[cur], donation_priority[cur]))
         => cur' = cur)

---------------------------------------------------------------------------
\* A client that calls lock_acquire and lock_release back to back on a free
\* lock and compares the state before and after.

\* What the client observes: the priorities, the donated priorities, the
\* lock priorities and holders, the semaphore values, the locks the threads
\* hold and wait for, the threads of the ready list and of the waiters
\* lists, the thread states and the running thread.
Observation ==
  <<priority, donation_priority, lock_priority, holder, sema_value, lock_list,
    thread_lock, Range(ready_list), [s \in Semas |-> Range(sema_waiters[s])],
    status, cur>>

\* A thread is inside the pair of calls.
InRoundTrip ==
  \E t \in AllThreads : \E i \in 1..Len(stack[t]) :
    stack[t][i].pc \in {"rt_release", "rt_done"}

\* The client, the initial thread, observes the state and calls
\* lock_acquire (l) on a lock without holder whose semaphore has the value 1.
\* It notes whether the lock has no waiters, and whether every ready thread
\* is below the caller.
RoundTripAcquire(l) ==
  /\ InClient(cur)
  /\ cur = 1
  /\ ~InRoundTrip
  /\ holder[l] = NoThread
  /\ sema_value[LockSema(l)] = 1
  /\ LockAcquireStart(cur, l,
       <<[Frame("rt_release", l, NoSema, NoCond, NoThread)
            EXCEPT !.obs = <<Observation,
                             sema_waiters[LockSema(l)] = << >>,
                             \A t \in Range(ready_list) : EffPri(t) < EffPri(cur)>>]>>)
  /\ UNCHANGED <<schedVars, priority, all_list, cond_waiters, panic>>

\* The client calls lock_release (l) next.
RoundTripRelease ==
  /\ Running(cur)
  /\ At(cur, "rt_release")
  /\ LockReleaseCrit(cur, Top(cur).lock, <<[Top(cur) EXCEPT !.pc = "rt_done"]>>)
  /\ UNCHANGED <<schedVars, priority, all_list, semaVars, cond_waiters, panic>>

\* lock_release has returned and the client has compared.
RoundTripDone ==
  /\ Running(cur)
  /\ At(cur, "rt_done")
  /\ stack' = [stack EXCEPT ![cur] = Below(cur)]
  /\ UNCHANGED <<schedVars, priority, all_list, semaVars, lockVars, cond_waiters, panic>>

\* The threads that client creates.
RoundTripThreads == 3

\* The kernel under that client: the pair is on lock 1, and no timer
\* interrupt pre-empts a thread between its two calls.
NextRoundTrip ==
  \/ ~InRoundTrip /\ ThreadTick
  \/ Idle
  \/ \E p \in ClientPriorities : ThreadSetPriority(p)
  \/ SetPriorityYield
  \/ \E n \in 1..RoundTripThreads, p \in ClientPriorities : ThreadCreate(n, p)
  \/ ThreadCreateRelease
  \/ ThreadCreateUnblock
  \/ ThreadCreateYield
  \/ \E l \in UserLocks : LockAcquire(l)
  \/ DonatePriorityRecursively
  \/ LockAcquireSleep
  \/ LockAcquireWoken
  \/ SemaDownLoop
  \/ \E l \in UserLocks : LockRelease(l)
  \/ LockReleaseUp
  \/ SemaUpYield
  \/ LockReleaseReturn
  \/ RoundTripAcquire(1)
  \/ RoundTripRelease
  \/ RoundTripDone

SpecRoundTrip == Init /\ [][NextRoundTrip]_vars

RoundTripAtYield ==
  /\ Running(cur)
  /\ At(cur, "su_yield")
  /\ Len(stack[cur]) = 3
  /\ stack[cur][1].pc = "rt_done"

---------------------------------------------------------------------------
\* A client that counts on a semaphore: sema_up on a semaphore without
\* waiters followed by sema_down, and sema_init (v) followed by v sema_down.

\* A thread is inside one of the two sequences.
InCounting ==
  \E t \in AllThreads : \E i \in 1..Len(stack[t]) :
    stack[t][i].pc \in {"cu_down", "cu_done", "id_down", "id_done"}

\* The client calls sema_up on a semaphore whose waiters list is empty.  It
\* notes the value, the ready threads and the threads' states before the
\* call, and whether every ready thread is below the caller.
CountUp(i) ==
  /\ InClient(cur)
  /\ ~InCounting
  /\ sema_waiters[UserSema(i)] = << >>
  /\ sema_value[UserSema(i)] < MaxSemaValue
  /\ SemaUpCrit(cur, UserSema(i),
       <<[Frame("cu_down", NoLock, UserSema(i), NoCond, NoThread)
            EXCEPT !.obs = <<sema_value[UserSema(i)], ready_list, status,
                             \A t \in Range(ready_list) : EffPri(t) < EffPri(cur)>>]>>)
  /\ UNCHANGED <<priority, all_list, lockVars, cond_waiters, panic>>

\* The client calls sema_down on the same semaphore next.
CountDown ==
  /\ Running(cur)
  /\ At(cur, "cu_down")
  /\ SemaDownCheck(cur, Top(cur).sema, <<[Top(cur) EXCEPT !.pc = "cu_done"]>>)
  /\ UNCHANGED <<priority, all_list, lockVars, cond_waiters, panic>>

\* sema_init (v) on a semaphore no thread waits for; v calls of sema_down
\* are to follow.
SemaInit(i, v) ==
  /\ InClient(cur)
  /\ ~InCounting
  /\ sema_waiters[UserSema(i)] = << >>
  /\ sema_value' = [sema_value EXCEPT ![UserSema(i)] = v]
  /\ sema_waiters' = [sema_waiters EXCEPT ![UserSema(i)] = << >>]
  /\ stack' = [stack EXCEPT ![cur] =
       <<[Frame(IF v = 0 THEN "id_done" ELSE "id_down", NoLock, UserSema(i), NoCond, NoThread)
            EXCEPT !.obs = <<v>>]>>]
  /\ UNCHANGED <<schedVars, priority, all_list, lockVars, cond_waiters, panic>>

\* One of the v calls of sema_down.
InitDown ==
  /\ Running(cur)
  /\ At(cur, "id_down")
  /\ SemaDownCheck(cur, Top(cur).sema,
       <<[Top(cur) EXCEPT !.pc = IF Top(cur).obs[1] = 1 THEN "id_done" ELSE "id_down",
                          !.obs = <<Top(cur).obs[1] - 1>>]>>)
  /\ UNCHANGED <<priority, all_list, lockVars, cond_waiters, panic>>

\* The last sema_down of either sequence has returned.
CountDone ==
  /\ Running(cur)
  /\ (At(cur, "cu_done") \/ At(cur, "id_done"))
  /\ stack' = [stack EXCEPT ![cur] = Below(cur)]
  /\ UNCHANGED <<schedVars, priority, all_list, semaVars, lockVars, cond_waiters, panic>>

\* The threads of that client, the initial thread included.
CountThreads == 3

\* The kernel under that client: no timer interrupt pre-empts a thread
\* inside one of the two sequences.
NextCount ==
  \/ ~InCounting /\ ThreadTick
  \/ Idle
  \/ \E n \in 1..CountThreads, p \in ClientPriorities : ThreadCreate(n, p)
  \/ ThreadCreateRelease
  \/ LockReleaseUp
  \/ LockReleaseReturn
  \/ ThreadCreateUnblock
  \/ ThreadCreateYield
  \/ \E i \in UserSemas : SemaDown(i)
  \/ SemaDownLoop
  \/ \E i \in UserSemas : SemaTryDown(i)
  \/ \E i \in UserSemas : SemaUp(i)
  \/ SemaUpYield
  \/ \E i \in UserSemas : CountUp(i)
  \/ CountDown
  \/ \E i \in UserSemas, v \in 0..MaxSemaValue : SemaInit(i, v)
  \/ InitDown
  \/ CountDone

SpecCount == Init /\ [][NextCount]_vars

\* A thread has blocked in a sema_down of one of the two sequences.
BlockedInCounting(t) ==
  /\ Len(stack[t]) = 2
  /\ stack[t][1].pc \in {"cu_done", "id_down", "id_done"}
  /\ stack[t][2].pc = "sd_loop"

\* The sema_up of the client has run up to its thread_yield.
CountedUp ==
  /\ Running(cur)
  /\ Len(stack[cur]) = 2
  /\ stack[cur][1].pc = "cu_down"
  /\ stack[cur][2].pc = "su_yield"

\* sema_up on a semaphore without waiters adds one to the value and wakes
\* nobody; after sema_init (v) and v calls of sema_down the value is 0.
CountsExactly ==
  /\ CountedUp =>
       /\ sema_value[stack[cur][1].sema] = stack[cur][1].obs[1] + 1
       /\ ready_list = stack[cur][1].obs[2]
       /\ status = stack[cur][1].obs[3]
  /\ (Running(cur) /\ At(cur, "id_done")) => sema_value[Top(cur).sema] = 0

\* C21 as stated: sema_up on a semaphore without waiters adds one to the
\* value and wakes nobody, and the caller's next sema_down does not block;
\* after sema_init (v), v calls of sema_down do not block and leave 0.
CountingNeverBlocks ==
  /\ CountsExactly
  /\ \A t \in Threads : ~BlockedInCounting(t)

\* C21: sema_up on a semaphore without waiters adds one to the value and
\* wakes nobody, and when every ready thread is below the caller its next
\* sema_down does not block; after sema_init (v), v calls of sema_down with
\* no other thread in between do not block and leave the value 0.
CountingAloneNeverBlocks ==
  /\ CountsExactly
  /\ \A t \in Threads :
       BlockedInCounting(t) => (stack[t][1].pc = "cu_done" /\ ~stack[t][1].obs[4])

\* The sema_down after the sema_up has returned to a caller that had a
\* ready thread below it, and another thread waits for the value.
CountedDownWithOthers ==
  /\ Running(cur)
  /\ At(cur, "cu_done")
  /\ Top(cur).obs[4]
  /\ ready_list # << >>
  /\ \E t \in Threads : t # cur /\ At(t, "sd_loop")

---------------------------------------------------------------------------
\* The donation walk and the ceilings.

\* The running thread is about to make a call of donate_priority_recursively.
WalkStep == Running(cur) /\ At(cur, "la_walk") /\ Top(cur).walk # NoLock

\* The lock the walk started at had a priority of at least the donated one
\* when the walk started.  Past the first call the lock's priority is at
\* least the donated one in either case, and only a strictly larger one
\* shows what it was.
CeilingWasHigh ==
  IF Top(cur).seen = {}
    THEN lock_priority[Top(cur).lock] >= Top(cur).prio
    ELSE lock_priority[Top(cur).lock] > Top(cur).prio

\* A walk from a lock whose priority is at least the donated one changes no
\* lock's priority and no thread's donated priority.
ShortCircuitStep ==
  (WalkStep /\ CeilingWasHigh) => UNCHANGED <<lock_priority, donation_priority>>

\* The step is the interrupts-off section of lock_release.
ReleaseStep ==
  /\ cur' = cur
  /\ ~At(cur, "lr_up")
  /\ stack'[cur] # << >>
  /\ stack'[cur][Len(stack'[cur])].pc = "lr_up"

\* The priorities of the locks and the donated priorities rise in a walk,
\* and fall in lock_release only.
RiseAndFallStep ==
  /\ WalkStep =>
       /\ \A l \in Locks : lock_priority'[l] >= lock_priority[l]
       /\ \A t \in AllThreads : donation_priority'[t] >= donation_priority[t]
  /\ ((\E l \in Locks : lock_priority'[l] < lock_priority[l])
        \/ (\E t \in AllThreads : donation_priority'[t] < donation_priority[t]))
       => ReleaseStep

\* The second half of C22 by itself: rise in a walk, fall in lock_release.
DonationMonotonic == [][RiseAndFallStep]_vars

\* C22: a donation walk that starts at a lock whose priority is already at
\* least the donated priority changes nothing, at that lock or further down
\* the chain; lock priorities and donated priorities only rise during a
\* walk and fall only in lock_release.
DonationShortCircuit == [][ShortCircuitStep /\ RiseAndFallStep]_vars

---------------------------------------------------------------------------
\* Threads that have exited.

\* A dying thread is on no list and does not run; but for the initial
\* thread its page is freed, and only pages of dying threads are.
DyingIsGone ==
  /\ \A t \in AllThreads : status[t] = "dying" =>
       /\ cur # t
       /\ t \notin Range(all_list)
       /\ ListPlaces(t) = {}
       /\ (t \in page_freed) <=> (t # initial_thread)
  /\ \A t \in page_freed : status[t] = "dying"

\* A page is freed in the switch away from the thread that has just exited,
\* by the thread switched to, and was not freed before.
FreedByNextStep ==
  page_freed' # page_freed =>
    /\ status[cur] = "running"
    /\ status'[cur] = "dying"
    /\ cur' # cur
    /\ status'[cur'] = "running"
    /\ cur \notin page_freed
    /\ page_freed' = page_freed \cup {cur}

\* A thread that has died stays as it is.
DeadStaysStep ==
  \A t \in AllThreads : status[t] = "dying" => status'[t] = "dying"

\* C23: deferred reaping.  A thread that calls thread_exit is dying, leaves
\* all_list, is on no list and is not scheduled again; its page is freed
\* once, in the switch to the thread that runs next and not while it is the
\* running thread; the page of the initial thread is never freed.
DeferredReaping == []DyingIsGone /\ [][FreedByNextStep /\ DeadStaysStep]_vars

\* A created thread has exited and its page is freed, and the initial
\* thread has exited and keeps its page.
ExitedAndReaped ==
  /\ status[initial_thread] = "dying"
  /\ initial_thread \notin page_freed
  /\ \E t \in Threads : t \in page_freed /\ t \notin Range(all_list)
  /\ \E t \in Threads : status[t] \in {"ready", "blocked", "running"}

---------------------------------------------------------------------------
\* The holder of a lock and the lock lists.

\* The locks on the lock_list of t.
Held(t) == Range(lock_list[t])

\* C24: holder and lock lists.  While the running thread has interrupts on,
\* a lock is on the lock_list of a thread exactly if the thread is its
\* holder, no lock is on two lists, and the donated priority of a thread is
\* the largest priority of the locks on its list, PRI_MIN without any.
HolderMatchesLockList ==
  ~IntrOff(cur) =>
    /\ \A t \in AllThreads, l \in Locks : (l \in Held(t)) <=> (holder[l] = t)
    /\ \A t, u \in AllThreads : t # u => Held(t) \cap Held(u) = {}
    /\ \A t \in AllThreads : donation_priority[t] = MaxCeiling(lock_list[t])

---------------------------------------------------------------------------
\* Wake-ups.

\* C25: no lost wake-up.  Whenever a semaphore has a value above 0 and a
\* waiter, a thread that sema_up took off its waiters is ready or running
\* and has not tested the value again.
NoLostWakeUp ==
  \A s \in Semas :
    (sema_value[s] > 0 /\ sema_waiters[s] # << >>) =>
      \E t \in Threads :
        /\ ~Waits(t, s)
        /\ status[t] \in {"ready", "running"}
        /\ At(t, "sd_loop")
        /\ Top(t).sema = s

\* A thread that sema_up woke runs and is about to test the value, which is
\* above 0, and another thread is still on the waiters.
WokenRunsToTakeValue ==
  \E i \in UserSemas, w \in Threads, v \in Threads :
    /\ Woken(w, UserSema(i))
    /\ Running(w)
    /\ sema_value[UserSema(i)] > 0
    /\ Waits(v, UserSema(i))
===========================================================================
